---- MODULE Spec2Model ----
(***************************************************************************)
(* The tool server (mcp-server.mts, in its two variants) and the chat      *)
(* client (llm-client.ts) of ccip-agent.                                   *)
(*                                                                         *)
(* An HTTP request to POST /rpc is a small process: it is received, its    *)
(* session's handler set is looked up or created (with a suspension at     *)
(* `await connect`), it is delegated to a transport, the called tool is    *)
(* looked up and its arguments validated, and the moveToken handler runs   *)
(* its balance read / approval / send sequence with a suspension at every  *)
(* external call.  Every external call may return or raise.                *)
(*                                                                         *)
(* Spec is the server under concurrent requests of any clients,            *)
(* TransferSpec the server under concurrent moveToken calls in one         *)
(* session, DriverSpec the chat client together with the server.           *)
(***************************************************************************)
EXTENDS Integers, Sequences, FiniteSets, TLC

\* ---------------------------------------------------------------- bounds
MaxRequests == 2
MaxBalance == 2
MaxTurns == 2

\* ------------------------------------------------------- argument values
\* A JSON value of a tool argument: absent, a string, an integer number or
\* a number with a fractional part (n + 1/2).
Absent == [k |-> "absent", s |-> "", n |-> 0]
Str(x) == [k |-> "str", s |-> x, n |-> 0]
Num(i) == [k |-> "num", s |-> "", n |-> i]
Frac(i) == [k |-> "frac", s |-> "", n |-> i]

EmptyArgs == [tokenAddress |-> Absent, amount |-> Absent, destinationAccount |-> Absent]
GoodArgs == [tokenAddress |-> Str("0xabc"), amount |-> Num(1), destinationAccount |-> Str("0xdef")]

TokenValues == {Absent, Num(7), Str("abc"), Str("0xabc")}
AmountValues == {Absent, Str("5"), Frac(1), Num(-1), Num(1), Num(2)}
DestValues == {Absent, Num(7), Str("def"), Str("0xdef")}

\* The argument mappings a client sends: the empty mapping and every mapping
\* that differs from a complete one in at most one field.
ArgMaps ==
    {EmptyArgs}
    \cup {[GoodArgs EXCEPT !.tokenAddress = v] : v \in TokenValues}
    \cup {[GoodArgs EXCEPT !.amount = v] : v \in AmountValues}
    \cup {[GoodArgs EXCEPT !.destinationAccount = v] : v \in DestValues}

\* ----------------------------------------------------------------- tools
RegisteredTools == {"helloWorld", "getCurrentTime", "moveToken"}
ToolNames == RegisteredTools \cup {"", "bogus"}

\* z.string(): any string passes, whatever its content.
ZString(v) == v.k = "str"
\* z.number(): any number passes, negative and fractional included.
ZNumber(v) == v.k \in {"num", "frac"}
\* Mutant: every field of the schema is optional.
InputSchemaOptional(a) ==
    /\ a.tokenAddress.k \in {"absent", "str"}
    /\ a.amount.k \in {"absent", "num", "frac"}
    /\ a.destinationAccount.k \in {"absent", "str"}
\* The moveToken inputSchema.
InputSchemaOk(a) ==
    /\ ZString(a.tokenAddress)
    /\ ZNumber(a.amount)
    /\ ZString(a.destinationAccount)

\* BigInt(input.amount) raises a RangeError on a number that is not an integer.
BigIntThrows(v) == v.k = "frac"
BigInt(v) == v.n

\* ------------------------------------------------------------ environment
RequiredKeys == {"RPC_URL", "PRIVATE_KEY", "ROUTER_ADDRESS", "DESTINATION_CHAIN_SELECTOR"}
\* start(): express is set up, the tools are registered and the server
\* listens, whatever the environment holds; the environment is first read in
\* the moveToken handler.
Start(e) == "listening"
\* privateKeyToAccount(PRIVATE_KEY) raises when the key is not set.
PrivateKeyToAccountThrows(e) == "PRIVATE_KEY" \notin e

\* ---------------------------------------------------------------- session
Headers == {"", "s1"}
\* let sessionId = req.headers["mcp-session-id"]; if (!sessionId) sessionId = "default"
SessionIdOf(h) == IF h = "" THEN "default" ELSE h
SessionIds == {SessionIdOf(h) : h \in Headers}

\* ------------------------------------------------------------ send results
SendResults == {[tx |-> "0xt1", msg |-> "0xm1"], [tx |-> "0xt2", msg |-> "0xm2"]}

\* ------------------------------------------------------------------ state
VARIABLES
    variant,       \* "perSession" (the server with one McpServer per session) or "shared"
    env,           \* the environment variables that are set
    sessions,      \* session id -> transport of its entry (0: no entry)
    handlers,      \* the handler sets created so far: transport i with its server
    requests,      \* the HTTP requests
    chainBalance,  \* the sender's token balance on the source chain
    driver         \* the chat client: its position in main's loop and its transcript

vars == <<variant, env, sessions, handlers, requests, chainBalance, driver>>

Reqs == 1..MaxRequests

NoResp == [kind |-> "none", have |-> 0, need |-> 0, amount |-> Absent,
           token |-> "", dest |-> "", tx |-> "", msg |-> "", reason |-> ""]

\* An event of the external providers' call log.
Event(op, ev, token, amount, bal, res) ==
    [op |-> op, ev |-> ev, token |-> token, amount |-> amount, bal |-> bal,
     tx |-> res.tx, msg |-> res.msg]
NoRes == [tx |-> "", msg |-> ""]

IdleRequest ==
    [pc |-> "idle", header |-> "", sid |-> "", tool |-> "", args |-> EmptyArgs,
     mine |-> 0, tr |-> 0, srv |-> -1, invoked |-> FALSE, amount |-> 0, balance |-> 0,
     log |-> <<>>, resp |-> NoResp]

\* ------------------------------------------------------ completion texts
\* The text of a completion, as the sequence of its tokens: the marker TOOL:,
\* a space, a newline, a parenthesis, a word (\w+ or prose), or an argument
\* payload {...} written in one of the syntaxes below with the fields of map.
\* A text carries at most one payload.
Tok(t, w, syn, map) == [t |-> t, w |-> w, syn |-> syn, map |-> map]
Marker == Tok("marker", "TOOL:", "", EmptyArgs)
Sp == Tok("sp", " ", "", EmptyArgs)
Nl == Tok("nl", "\n", "", EmptyArgs)
Lp == Tok("lp", "(", "", EmptyArgs)
Rp == Tok("rp", ")", "", EmptyArgs)
Word(w) == Tok("word", w, "", EmptyArgs)
\* syn = "json"   {"tokenAddress": "0xabc", "amount": 1}    strict JSON
\*       "bare"   { tokenAddress: "0xabc", amount: 1 }      keys not quoted
\*       "single" {'tokenAddress': '0xabc', 'amount': 1}    single quotes
\*       "comma"  {"tokenAddress": "0xabc", "amount": 1,}   trailing comma
Payload(syn, map) == Tok("payload", "", syn, map)
Syntaxes == {"json", "bare", "single", "comma"}
FieldNames == {"tokenAddress", "amount", "destinationAccount"}

\* str.indexOf(tok), counted from 1; 0 when there is none (-1 in the code).
IndexOf(toks, tok) ==
    IF \E i \in DOMAIN toks : toks[i] = tok
    THEN CHOOSE i \in DOMAIN toks : toks[i] = tok /\ \A j \in 1..(i - 1) : toks[j] # tok
    ELSE 0

\* str.trim()
Trim(toks) ==
    LET keep == {i \in DOMAIN toks : toks[i] # Sp}
    IN  IF keep = {} THEN <<>>
        ELSE SubSeq(toks, CHOOSE i \in keep : \A j \in keep : i <= j,
                          CHOOSE i \in keep : \A j \in keep : j <= i)

\* llmReply.startsWith("TOOL:")
StartsWithMarker(text) == Len(text) > 0 /\ text[1] = Marker

\* llmReply.split('\n')[0]
FirstLine(text) ==
    LET i == IndexOf(text, Nl)
    IN  IF i = 0 THEN text ELSE SubSeq(text, 1, i - 1)

\* rest.match(/^(\w+)\(\s*(\{.*\})\s*\)$/)
ParenMatch(rest) ==
    /\ Len(rest) >= 4
    /\ rest[1].t = "word"
    /\ rest[2] = Lp
    /\ rest[Len(rest)] = Rp
    /\ LET inner == Trim(SubSeq(rest, 3, Len(rest) - 1))
       IN  Len(inner) = 1 /\ inner[1].t = "payload"

\* The text between the marker and the first space as a string: a word is
\* itself; a text with a parenthesis or a payload glued to it is no word.
NotAWord == "moveToken({...})"
NameText(toks) ==
    IF toks = <<>> THEN ""
    ELSE IF Len(toks) = 1 /\ toks[1].t = "word" THEN toks[1].w
    ELSE NotAWord

\* The tool name and the argument text of the first line of a reply that
\* starts with the marker: toolName({args}), or toolName {args}, or toolName.
ParseToolLine(llmReply) ==
    LET rest == Trim(Tail(FirstLine(llmReply)))
        spaceIndex == IndexOf(rest, Sp)
    IN  IF ParenMatch(rest)
        THEN [toolName |-> rest[1].w,
              argsJson |-> Trim(SubSeq(rest, 3, Len(rest) - 1))]
        ELSE IF spaceIndex # 0
        THEN [toolName |-> NameText(SubSeq(rest, 1, spaceIndex - 1)),
              argsJson |-> Trim(SubSeq(rest, spaceIndex + 1, Len(rest)))]
        ELSE [toolName |-> NameText(rest), argsJson |-> <<>>]

\* JSON.parse(argsJson) raises unless the text is strict JSON.
JsonParseThrows(argsJson) ==
    ~(Len(argsJson) = 1 /\ argsJson[1].t = "payload" /\ argsJson[1].syn = "json")
JsonParse(argsJson) == argsJson[1].map

\* fixedJson.startsWith('{') && fixedJson.includes('"') && !fixedJson.includes('\\"')
LooksLikeObject(argsJson) ==
    /\ argsJson[1].t = "payload"
    /\ \/ argsJson[1].syn = "bare" /\ \E f \in FieldNames : argsJson[1].map[f].k = "str"
       \/ argsJson[1].syn = "comma" /\ \E f \in FieldNames : argsJson[1].map[f].k # "absent"

\* The value /(\w+):\s*"([^"]+)"|(\w+):\s*(\d+)/ takes for a field written
\* key: value; the digits before a decimal point are read as the number, and
\* a minus sign or an empty string matches nothing.
ScrapeValue(v) ==
    IF v.k = "str" /\ v.s # "" THEN v
    ELSE IF v.k \in {"num", "frac"} /\ v.n >= 0 THEN Num(v.n)
    ELSE Absent

\* fixedJson.match(/.../g): the pairs found.  A quoted key ends in a quote,
\* not in a word character, so it is matched by neither alternative.
Matches(argsJson) ==
    IF argsJson[1].syn = "bare"
    THEN {f \in FieldNames : ScrapeValue(argsJson[1].map[f]) # Absent}
    ELSE {}
Scraped(argsJson) ==
    [f \in FieldNames |-> IF f \in Matches(argsJson)
                          THEN ScrapeValue(argsJson[1].map[f]) ELSE Absent]

\* Mutant: a payload that cannot be parsed is read as the empty mapping
\* without the key:value scrape.
ParseArgsNoScrape(argsJson) ==
    IF argsJson = <<>> THEN EmptyArgs
    ELSE IF ~JsonParseThrows(argsJson) THEN JsonParse(argsJson)
    ELSE EmptyArgs

\* let args = {}; if (argsJson) { JSON.parse, else the scrape, else {} }
ParseArgs(argsJson) ==
    IF argsJson = <<>> THEN EmptyArgs
    ELSE IF ~JsonParseThrows(argsJson) THEN JsonParse(argsJson)
    ELSE IF LooksLikeObject(argsJson) /\ Matches(argsJson) # {} THEN Scraped(argsJson)
    ELSE EmptyArgs

\* ------------------------------------------------------------ chat client
\* Completions of the model.
PlainReply == <<Word("Sure")>>
ToolReply(name, payload) == <<Marker, Sp, Word(name)>> \o payload

\* An utterance of the transcript: `${role}: ${text}`, the role of a tool
\* result being `Tool result for ${tool}`.
Utterance(role, tool, text) == [role |-> role, tool |-> tool, text |-> text]
SystemPrompt == Utterance("SYSTEM", "", <<Word("You are an assistant")>>)
UserSays(text) == Utterance("User", "", <<Word(text)>>)
\* "The token transfer has been completed successfully! ..."
CannedCompletion == Utterance("Assistant", "", <<Word("completed successfully")>>)
\* Mutant: the canned message is pushed in place of the reply.
AssistantSaysCanned(reply) == CannedCompletion

AssistantSays(reply) == Utterance("Assistant", "", reply)
\* The text of a tool result is the kind of the tool's result.
ToolResult(name, resp) == Utterance("Tool result", name, <<Word(resp.kind)>>)

UserInputs == {"exit", "EXIT", "move"}
\* Mutant: the input is compared as it was typed.
ToLowerCaseNot(text) == text

ToLowerCase(text) == IF text = "EXIT" THEN "exit" ELSE text

\* ------------------------------------------------- callToolWithTimeout
\* timeoutMs = 300000
ToolTimeoutMs == 300000

\* What the promise of callToolWithTimeout is settled with.
NoValue == [kind |-> "none", tool |-> "", seconds |-> 0, text |-> ""]
\* new Error(`Tool '${toolName}' timed out after ${timeoutMs/1000} seconds`)
TimeoutError(toolName, timeoutMs) ==
    [kind |-> "timeout", tool |-> toolName, seconds |-> timeoutMs \div 1000, text |-> "timed out"]
\* The result, or the error, of mcpClient.callTool.
ToolValue(resp) == [NoValue EXCEPT !.kind = "result", !.text = resp.kind]
ToolError(resp) == [NoValue EXCEPT !.kind = "error", !.text = resp.kind]

\* One call of callToolWithTimeout: its promise, its timer, and whether
\* mcpClient.callTool has settled.
NoCall == [promise |-> "none", value |-> NoValue, timer |-> "none", toolSettled |-> FALSE]
\* new Promise(...); setTimeout(..., timeoutMs)
NewCall == [promise |-> "pending", value |-> NoValue, timer |-> "armed", toolSettled |-> FALSE]

\* Mutant: a later resolve or reject replaces what the promise was settled with.
SettleOverwrite(call, promise, value) ==
    [call EXCEPT !.promise = promise, !.value = value]

\* resolve(value) / reject(error): the first of them settles the promise,
\* every later one is ignored.
Settle(call, promise, value) ==
    IF call.promise = "pending"
    THEN [call EXCEPT !.promise = promise, !.value = value]
    ELSE call

\* clearTimeout(timeoutId): a timer that has fired is not affected.
ClearTimeout(call) ==
    IF call.timer = "armed" THEN [call EXCEPT !.timer = "cleared"] ELSE call

\* mcpClient.callTool settles: clearTimeout, then resolve(result) or reject(error).
CallToolSettles(call, how, resp) ==
    [ClearTimeout(IF how = "resolve"
                  THEN Settle(call, "fulfilled", ToolValue(resp))
                  ELSE Settle(call, "rejected", ToolError(resp)))
     EXCEPT !.toolSettled = TRUE]

\* ---------------------------------------------------------------- callLLM
\* setTimeout(() => controller.abort(), 100000)
LlmTimeoutMs == 100000

\* One call of callLLM: where it is (waiting for fetch, reading the body of
\* a response whose status is ok or not, returned, raised), its abort timer,
\* and the message of the error it raised.
\* The seconds the timeout error of callLLM states.
LlmTimeoutSeconds == 30
\* ms is the delay the timer was armed with, seconds the duration a timeout
\* error states (0 when there is none).
NoCompletion ==
    [stage |-> "none", ok |-> FALSE, timer |-> "none", ms |-> 0, error |-> "", seconds |-> 0]
\* new AbortController(); setTimeout(...); fetch(endpoint, {... signal})
NewCompletion ==
    [stage |-> "fetch", ok |-> FALSE, timer |-> "armed", ms |-> LlmTimeoutMs, error |-> "",
     seconds |-> 0]
\* callLLM raises: clearTimeout(timeoutId) in the catch block, then the error.
Raised(llm, error) ==
    [llm EXCEPT !.stage = "raised", !.error = error,
                !.timer = IF @ = "armed" THEN "cleared" ELSE @]
\* The errors of fetch and of the body: fetch rejects; the status is not ok;
\* the body is no JSON; json.response is no string.
CompletionErrors(llm) ==
    IF llm.stage = "fetch" THEN {"fetch failed"}
    ELSE IF llm.ok THEN {"not JSON", "Unexpected response format"}
    ELSE {"LLM request failed", "body failed"}

InitDriver ==
    [pc |-> "AwaitingInput", turn |-> 0, history |-> <<SystemPrompt>>,
     llm |-> NoCompletion,
     userInput |-> "", llmReply |-> <<>>, followUp |-> <<>>,
     toolName |-> "", args |-> EmptyArgs, req |-> 0, call |-> NoCall,
     dispatches |-> <<>>]

Init ==
    /\ driver = InitDriver
    /\ variant \in {"perSession", "shared"}
    /\ env \in {RequiredKeys, RequiredKeys \ {"PRIVATE_KEY"}}
    /\ sessions = [s \in SessionIds |-> 0]
    /\ handlers = <<>>
    /\ requests = [r \in Reqs |-> IdleRequest]
    /\ chainBalance \in 0..MaxBalance


\* -------------------------------------------------------------- responses
Resp(kind) == [NoResp EXCEPT !.kind = kind]
\* `Insufficient token balance: you have ${balance}, but need ${amount}`
InsufficientText(balance, amount) ==
    [NoResp EXCEPT !.kind = "Insufficient", !.have = balance, !.need = amount]
\* `Moved ${input.amount} tokens from ${input.tokenAddress} to
\*  ${input.destinationAccount} ... with txHash ${txHash} and message ID ${messageId}.`
MovedTextSwapped(input, res) ==
    [NoResp EXCEPT !.kind = "Moved", !.amount = input.amount,
                   !.token = input.tokenAddress.s,
                   !.dest = input.destinationAccount.s,
                   !.tx = res.msg, !.msg = res.tx]

MovedText(input, res) ==
    [NoResp EXCEPT !.kind = "Moved", !.amount = input.amount,
                   !.token = input.tokenAddress.s,
                   !.dest = input.destinationAccount.s,
                   !.tx = res.tx, !.msg = res.msg]
\* An exception that leaves the handler.
Failed(reason) == [NoResp EXCEPT !.kind = "Failed", !.reason = reason]

Set(r, q) == requests' = [requests EXCEPT ![r] = q]
\* A request whose response the client has received: nothing of it is left
\* but the session it came under and the transport that served it.
Closed(q) == [IdleRequest EXCEPT !.pc = "closed", !.header = q.header, !.sid = q.sid, !.tr = q.tr]
Finish(q, resp) == [q EXCEPT !.pc = "done", !.resp = resp]

\* ------------------------------------------------- POST /rpc: the session
\* The handler set a request creates when its session has no entry: a
\* transport, and the server it will be connected to.  The per-session
\* variant builds a new McpServer and registers the tools on it; the shared
\* variant connects the one server built at start (server 0).
NewHandlerSet(v, sid, t) ==
    [sid |-> sid, server |-> IF v = "perSession" THEN t ELSE 0, connected |-> FALSE]

\* transports[sessionId] = new StreamableHTTPServerTransport(...) is executed
\* before `await server.connect` in the shared variant; the per-session
\* variant stores its entry only after `await sessionServer.connect`.
StoresBeforeConnect(v) == v = "shared"

\* Mutant: the router falls back to a handler for the empty name.
RegisteredWithEmptyName(srv) == RegisteredTools \cup {""}

\* The tools registered on a server: the same three on every server.
Registered(srv) == RegisteredTools

\* await sessions[sessionId].transport.handleRequest(req, res, req.body)
Delegate(q, sess) == [q EXCEPT !.pc = "delegated", !.tr = sess[q.sid]]

\* The route handler up to its first await.
Arrive(r, h) ==
    /\ Start(env) = "listening"
    /\ requests[r].pc = "idle"
    /\ (r > 1 => requests[r - 1].pc # "idle")
    /\ LET sid == SessionIdOf(h)
           q == [requests[r] EXCEPT !.header = h, !.sid = sid]
           t == Len(handlers) + 1
       IN  IF sessions[sid] = 0
           THEN /\ handlers' = Append(handlers, NewHandlerSet(variant, sid, t))
                /\ sessions' = IF StoresBeforeConnect(variant)
                               THEN [sessions EXCEPT ![sid] = t]
                               ELSE sessions
                /\ Set(r, [q EXCEPT !.pc = "connecting", !.mine = t])
           ELSE /\ Set(r, Delegate(q, sessions))
                /\ UNCHANGED <<sessions, handlers>>
    /\ UNCHANGED <<variant, env, chainBalance>>

\* A request of some client arrives.
Receive(r, h) ==
    /\ Arrive(r, h)
    /\ UNCHANGED driver

\* `await connect(transport)` returns.
ConnectReturn(r) ==
    /\ requests[r].pc = "connecting"
    /\ LET q == requests[r]
           sess == IF StoresBeforeConnect(variant)
                   THEN sessions
                   ELSE [sessions EXCEPT ![q.sid] = q.mine]
       IN  /\ handlers' = [handlers EXCEPT ![q.mine].connected = TRUE]
           /\ sessions' = sess
           /\ Set(r, Delegate(q, sess))
    /\ UNCHANGED <<variant, env, chainBalance, driver>>

\* `await connect(transport)` raises: the exception leaves the route handler.
ConnectRaise(r) ==
    /\ requests[r].pc = "connecting"
    /\ Set(r, Finish(requests[r], Failed("connect")))
    /\ UNCHANGED <<variant, env, sessions, handlers, chainBalance, driver>>

\* ------------------------------------------------------ the moveToken tool
\* Mutants of the balance check: the comparison reversed, and off by one.
InsufficientReversed(balance, amount) == amount < balance
InsufficientOffByOne(balance, amount) == balance + 1 < amount

\* if (balance < amount)
Insufficient(balance, amount) == balance < amount

\* The handler up to its first await: the account, the amount, the balance read.
StartMoveToken(q0) ==
    LET q == [q0 EXCEPT !.invoked = TRUE]
    IN
    IF PrivateKeyToAccountThrows(env) THEN Finish(q, Failed("account"))
    ELSE IF BigIntThrows(q.args.amount) THEN Finish(q, Failed("amount"))
    ELSE [q EXCEPT !.pc = "reading",
                   !.amount = BigInt(q.args.amount),
                   !.log = <<Event("read", "call", q.args.tokenAddress.s, 0, 0, NoRes)>>]

\* The transport reads the body of the request, a tools/call message, and
\* hands it to the server connected to it: the tool is looked up by name, its
\* arguments are validated against its inputSchema, and its handler is called.
Dispatch(r, tool, args) ==
    /\ requests[r].pc = "delegated"
    /\ LET q0 == [requests[r] EXCEPT !.tool = tool, !.args = args]
           h == handlers[q0.tr]
           q == [q0 EXCEPT !.srv = h.server]
       IN  Set(r, IF ~h.connected THEN Finish(q0, Resp("Dropped"))
                  ELSE IF q.tool \notin Registered(h.server) THEN Finish(q, Resp("UnknownTool"))
                  ELSE IF q.tool = "helloWorld" THEN Finish(q, Resp("Hello"))
                  ELSE IF q.tool = "getCurrentTime" THEN Finish(q, Resp("Time"))
                  ELSE IF ~InputSchemaOk(q.args) THEN Finish(q, Resp("Invalid"))
                  ELSE StartMoveToken(q))
    /\ UNCHANGED <<variant, env, sessions, handlers, chainBalance, driver>>

\* Mutant: approveRouter is not awaited, the send follows at once.
ReadReturnNoWait(r) ==
    /\ requests[r].pc = "reading"
    /\ LET q == requests[r]
           token == q.args.tokenAddress.s
           balance == chainBalance
           lg == Append(q.log, Event("read", "ret", token, 0, balance, NoRes))
       IN  Set(r, IF Insufficient(balance, q.amount)
                  THEN Finish([q EXCEPT !.balance = balance, !.log = lg],
                              InsufficientText(balance, q.amount))
                  ELSE [q EXCEPT !.pc = "sending", !.balance = balance,
                                 !.log = lg \o <<Event("approve", "call", token, q.amount, 0, NoRes),
                                                 Event("send", "call", token, q.amount, 0, NoRes)>>])
    /\ UNCHANGED <<variant, env, sessions, handlers, chainBalance, driver>>

\* publicClient.readContract returns the balance.
ReadReturn(r) ==
    /\ requests[r].pc = "reading"
    /\ LET q == requests[r]
           token == q.args.tokenAddress.s
           balance == chainBalance
           lg == Append(q.log, Event("read", "ret", token, 0, balance, NoRes))
       IN  Set(r, IF Insufficient(balance, q.amount)
                  THEN Finish([q EXCEPT !.balance = balance, !.log = lg],
                              InsufficientText(balance, q.amount))
                  ELSE [q EXCEPT !.pc = "approving", !.balance = balance,
                                 !.log = Append(lg, Event("approve", "call", token, q.amount, 0, NoRes))])
    /\ UNCHANGED <<variant, env, sessions, handlers, chainBalance, driver>>

ReadRaise(r) ==
    /\ requests[r].pc = "reading"
    /\ LET q == requests[r]
       IN  Set(r, Finish([q EXCEPT !.log = Append(q.log,
                              Event("read", "raise", q.args.tokenAddress.s, 0, 0, NoRes))],
                         Failed("read")))
    /\ UNCHANGED <<variant, env, sessions, handlers, chainBalance, driver>>

\* ccip.approveRouter({... waitForReceipt: true}) returns: the approval is
\* confirmed; the handler goes on to ccip.transferTokens.
ApproveReturn(r) ==
    /\ requests[r].pc = "approving"
    /\ LET q == requests[r]
           token == q.args.tokenAddress.s
           lg == Append(q.log, Event("approve", "ret", token, q.amount, 0, NoRes))
       IN  Set(r, [q EXCEPT !.pc = "sending",
                            !.log = Append(lg, Event("send", "call", token, q.amount, 0, NoRes))])
    /\ UNCHANGED <<variant, env, sessions, handlers, chainBalance, driver>>

\* Mutant: the failure of approveRouter is caught and the send goes ahead.
ApproveRaiseSwallowed(r) ==
    /\ requests[r].pc = "approving"
    /\ LET q == requests[r]
           token == q.args.tokenAddress.s
       IN  Set(r, [q EXCEPT !.pc = "sending",
                            !.log = q.log \o <<Event("approve", "raise", token, q.amount, 0, NoRes),
                                               Event("send", "call", token, q.amount, 0, NoRes)>>])
    /\ UNCHANGED <<variant, env, sessions, handlers, chainBalance, driver>>

ApproveRaise(r) ==
    /\ requests[r].pc = "approving"
    /\ LET q == requests[r]
       IN  Set(r, Finish([q EXCEPT !.log = Append(q.log,
                              Event("approve", "raise", q.args.tokenAddress.s, q.amount, 0, NoRes))],
                         Failed("approve")))
    /\ UNCHANGED <<variant, env, sessions, handlers, chainBalance, driver>>

\* ccip.transferTokens returns { txHash, messageId }: the tokens have left
\* the sender's account.
SendReturn(r, res) ==
    /\ requests[r].pc = "sending"
    /\ LET q == requests[r]
       IN  /\ 0 <= q.amount /\ q.amount <= chainBalance
           /\ chainBalance' = chainBalance - q.amount
           /\ Set(r, Finish([q EXCEPT !.log = Append(q.log,
                                Event("send", "ret", q.args.tokenAddress.s, q.amount, 0, res))],
                            MovedText(q.args, res)))
    /\ UNCHANGED <<variant, env, sessions, handlers, driver>>

SendRaise(r) ==
    /\ requests[r].pc = "sending"
    /\ LET q == requests[r]
       IN  Set(r, Finish([q EXCEPT !.log = Append(q.log,
                              Event("send", "raise", q.args.tokenAddress.s, q.amount, 0, NoRes))],
                         Failed("send")))
    /\ UNCHANGED <<variant, env, sessions, handlers, chainBalance, driver>>

\* ---------------------------------------------------- main: the chat loop
Dispatched(turn, tool, outcome) == [turn |-> turn, tool |-> tool, outcome |-> outcome]
SetOutcome(d, outcome) ==
    [d.dispatches EXCEPT ![Len(d.dispatches)].outcome = outcome]

\* const userInput = await promptUser("You: ")
UserInput(text) ==
    /\ driver.pc = "AwaitingInput"
    /\ driver.turn < MaxTurns
    /\ driver' = IF ToLowerCase(text) = "exit"
                 THEN [driver EXCEPT !.pc = "Exited", !.userInput = text]
                 ELSE [driver EXCEPT !.pc = "RequestingCompletion",
                                     !.turn = @ + 1,
                                     !.userInput = text,
                                     !.llmReply = <<>>,
                                     !.followUp = <<>>,
                                     !.toolName = "",
                                     !.args = EmptyArgs,
                                     !.call = NoCall,
                                     !.llm = NewCompletion,
                                     !.history = Append(@, UserSays(text))]
    /\ UNCHANGED <<variant, env, sessions, handlers, requests, chainBalance>>

\* `await fetch(...)` returns a response, with a status that is ok or not:
\* clearTimeout(timeoutId), then the body is read.
FetchReturn(ok) ==
    /\ driver.pc \in {"RequestingCompletion", "RequestingFollowup"}
    /\ driver.llm.stage = "fetch"
    /\ driver' = [driver EXCEPT !.llm = [@ EXCEPT !.stage = "body", !.ok = ok,
                                                  !.timer = "cleared"]]
    /\ UNCHANGED <<variant, env, sessions, handlers, requests, chainBalance>>

\* The abort timer fires while fetch is awaited: controller.abort(), fetch
\* rejects with an AbortError, callLLM raises its timeout error and main breaks.
FetchTimeout ==
    /\ driver.pc \in {"RequestingCompletion", "RequestingFollowup"}
    /\ driver.llm.stage = "fetch"
    /\ driver.llm.timer = "armed"
    /\ driver' = [driver EXCEPT !.pc = "Exited",
                                !.llm = Raised([@ EXCEPT !.timer = "fired",
                                                         !.seconds = LlmTimeoutSeconds],
                                               "LLM request timed out after 30 seconds")]
    /\ UNCHANGED <<variant, env, sessions, handlers, requests, chainBalance>>

\* Mutant: the tool call is not awaited, the follow-up is requested at once.
CompletionReturnNoAwait(reply) ==
    /\ driver.pc = "RequestingCompletion"
    /\ driver.llm.stage = "body"
    /\ driver.llm.ok
    /\ driver' = IF StartsWithMarker(reply)
                 THEN LET line == ParseToolLine(reply)
                      IN  [driver EXCEPT !.pc = "RequestingFollowup",
                                         !.llm = NewCompletion,
                                         !.llmReply = reply,
                                         !.toolName = line.toolName,
                                         !.args = ParseArgs(line.argsJson),
                                         !.req = 0,
                                         !.call = NewCall,
                                         !.dispatches = Append(@, Dispatched(driver.turn,
                                                                  line.toolName, "pending"))]
                 ELSE [driver EXCEPT !.pc = "AwaitingInput",
                                     !.llm = [@ EXCEPT !.stage = "returned"],
                                     !.llmReply = reply,
                                     !.history = Append(@, AssistantSays(reply))]
    /\ UNCHANGED <<variant, env, sessions, handlers, requests, chainBalance>>

\* llmReply = await callLLM(conversationText) returns.  A reply that starts
\* with TOOL: is parsed and the tool is called under callToolWithTimeout;
\* any other reply is appended to the transcript.
CompletionReturn(reply) ==
    /\ driver.pc = "RequestingCompletion"
    /\ driver.llm.stage = "body"
    /\ driver.llm.ok
    /\ driver' = IF StartsWithMarker(reply)
                 THEN LET line == ParseToolLine(reply)
                      IN  [driver EXCEPT !.pc = "Dispatching",
                                         !.llm = [@ EXCEPT !.stage = "returned"],
                                         !.llmReply = reply,
                                         !.toolName = line.toolName,
                                         !.args = ParseArgs(line.argsJson),
                                         !.req = 0,
                                         !.call = NewCall,
                                         !.dispatches = Append(@, Dispatched(driver.turn,
                                                                  line.toolName, "pending"))]
                 ELSE [driver EXCEPT !.pc = "AwaitingInput",
                                     !.llm = [@ EXCEPT !.stage = "returned"],
                                     !.llmReply = reply,
                                     !.history = Append(@, AssistantSays(reply))]
    /\ UNCHANGED <<variant, env, sessions, handlers, requests, chainBalance>>

\* callLLM raises (fetch failed, the status is not ok, the body is not the
\* expected JSON): break.
CompletionRaise ==
    /\ driver.pc = "RequestingCompletion"
    /\ driver.llm.stage \in {"fetch", "body"}
    /\ \E e \in CompletionErrors(driver.llm) :
           driver' = [driver EXCEPT !.pc = "Exited", !.llm = Raised(@, e)]
    /\ UNCHANGED <<variant, env, sessions, handlers, requests, chainBalance>>

\* The ways mcpClient.callTool can settle once the server has finished the
\* request.  A result is delivered as it is; an error of the tool or of the
\* router reaches the client either as a rejected call or as a result that
\* carries the error text; a request the route handler abandoned is rejected
\* or never answered.
Settlements(resp) ==
    IF resp.kind \in {"Hello", "Time", "Moved", "Insufficient"} THEN {"resolve"}
    ELSE IF resp.kind \in {"Invalid", "UnknownTool"} THEN {"resolve", "reject"}
    ELSE IF resp.kind = "Failed" /\ resp.reason # "connect" THEN {"resolve", "reject"}
    ELSE IF resp.kind = "Failed" THEN {"reject"}
    ELSE {}

\* Mutant: the raw tool-invocation reply is stored before the tool result.
ToolResolveStoresReply ==
    /\ driver.pc = "Dispatching"
    /\ driver.req # 0
    /\ requests[driver.req].pc = "done"
    /\ "resolve" \in Settlements(requests[driver.req].resp)
    /\ driver' = [driver EXCEPT !.pc = "RequestingFollowup",
                                !.llm = NewCompletion,
                                !.history = Append(Append(@, AssistantSays(driver.llmReply)),
                                                   ToolResult(driver.toolName,
                                                              requests[driver.req].resp)),
                                !.call = CallToolSettles(@, "resolve", requests[driver.req].resp),
                                !.dispatches = SetOutcome(driver, "ok")]
    /\ Set(driver.req, Closed(requests[driver.req]))
    /\ UNCHANGED <<variant, env, sessions, handlers, chainBalance>>

\* await callToolWithTimeout(...) returns the tool's result: the result is
\* appended to the transcript and the follow-up completion is requested.
ToolResolve ==
    /\ driver.pc = "Dispatching"
    /\ driver.req # 0
    /\ requests[driver.req].pc = "done"
    /\ "resolve" \in Settlements(requests[driver.req].resp)
    /\ driver' = [driver EXCEPT !.pc = "RequestingFollowup",
                                !.llm = NewCompletion,
                                !.history = Append(@, ToolResult(driver.toolName,
                                                                 requests[driver.req].resp)),
                                !.call = CallToolSettles(@, "resolve", requests[driver.req].resp),
                                !.dispatches = SetOutcome(driver, "ok")]
    /\ Set(driver.req, Closed(requests[driver.req]))
    /\ UNCHANGED <<variant, env, sessions, handlers, chainBalance>>

\* Mutant: a failed tool call is posted again.
ToolRejectRetry ==
    /\ driver.pc = "Dispatching"
    /\ driver.req # 0
    /\ requests[driver.req].pc = "done"
    /\ "reject" \in Settlements(requests[driver.req].resp)
    /\ driver' = [driver EXCEPT !.req = 0,
                                !.dispatches = Append(SetOutcome(driver, "error"),
                                                      Dispatched(driver.turn, driver.toolName, "pending"))]
    /\ UNCHANGED <<variant, env, sessions, handlers, requests, chainBalance>>

\* await callToolWithTimeout(...) raises the tool call's error: break.
ToolReject ==
    /\ driver.pc = "Dispatching"
    /\ driver.req # 0
    /\ requests[driver.req].pc = "done"
    /\ "reject" \in Settlements(requests[driver.req].resp)
    /\ driver' = [driver EXCEPT !.pc = "Exited",
                                !.call = CallToolSettles(@, "reject", requests[driver.req].resp),
                                !.dispatches = SetOutcome(driver, "error")]
    /\ UNCHANGED <<variant, env, sessions, handlers, requests, chainBalance>>

\* The timer of callToolWithTimeout fires before the tool call settles: the
\* promise is rejected with the timeout error and main breaks.  The request
\* goes on at the server.
ToolTimeout ==
    /\ driver.pc = "Dispatching"
    /\ driver.call.timer = "armed"
    /\ driver' = [driver EXCEPT !.pc = "Exited",
                                !.call = Settle([@ EXCEPT !.timer = "fired"], "rejected",
                                                TimeoutError(driver.toolName, ToolTimeoutMs)),
                                !.dispatches = SetOutcome(driver, "timeout")]
    /\ UNCHANGED <<variant, env, sessions, handlers, requests, chainBalance>>

\* mcpClient.callTool settles after the timer has fired: clearTimeout and
\* resolve or reject are still executed.
ToolSettlesLate(how) ==
    /\ driver.call.timer = "fired"
    /\ ~driver.call.toolSettled
    /\ driver.req # 0
    /\ requests[driver.req].pc = "done"
    /\ how \in Settlements(requests[driver.req].resp)
    /\ driver' = [driver EXCEPT !.call = CallToolSettles(@, how, requests[driver.req].resp)]
    /\ UNCHANGED <<variant, env, sessions, handlers, requests, chainBalance>>

\* Mutant: a follow-up that starts with the marker is dispatched as well.
FollowupReturnDispatches(reply) ==
    /\ driver.pc = "RequestingFollowup"
    /\ driver.llm.stage = "body"
    /\ driver.llm.ok
    /\ driver' = IF StartsWithMarker(reply)
                 THEN LET line == ParseToolLine(reply)
                      IN  [driver EXCEPT !.pc = "Dispatching",
                                         !.llm = [@ EXCEPT !.stage = "returned"],
                                         !.call = NewCall,
                                         !.followUp = reply,
                                         !.toolName = line.toolName,
                                         !.args = ParseArgs(line.argsJson),
                                         !.req = 0,
                                         !.dispatches = Append(@, Dispatched(driver.turn,
                                                                  line.toolName, "pending"))]
                 ELSE [driver EXCEPT !.pc = "AwaitingInput",
                                     !.llm = [@ EXCEPT !.stage = "returned"],
                                     !.followUp = reply,
                                     !.history = Append(@, AssistantSays(reply))]
    /\ UNCHANGED <<variant, env, sessions, handlers, requests, chainBalance>>

\* followUp = await callLLM(followUpPrompt) returns.
FollowupReturn(reply) ==
    /\ driver.pc = "RequestingFollowup"
    /\ driver.llm.stage = "body"
    /\ driver.llm.ok
    /\ driver' = [driver EXCEPT !.pc = "AwaitingInput",
                                !.llm = [@ EXCEPT !.stage = "returned"],
                                !.followUp = reply,
                                !.history = Append(@, IF StartsWithMarker(reply)
                                                      THEN CannedCompletion
                                                      ELSE AssistantSays(reply))]
    /\ UNCHANGED <<variant, env, sessions, handlers, requests, chainBalance>>

FollowupRaise ==
    /\ driver.pc = "RequestingFollowup"
    /\ driver.llm.stage \in {"fetch", "body"}
    /\ \E e \in CompletionErrors(driver.llm) :
           driver' = [driver EXCEPT !.pc = "Exited", !.llm = Raised(@, e)]
    /\ UNCHANGED <<variant, env, sessions, handlers, requests, chainBalance>>

\* The transport reads the tools/call message that mcpClient.callTool posted.
DriverDispatch(r) ==
    /\ r = driver.req
    /\ Dispatch(r, driver.toolName, driver.args)

\* The POST that mcpClient.callTool sends arrives at the server.
DriverPost(r) ==
    /\ driver.call.promise # "none"
    /\ ~driver.call.toolSettled
    /\ driver.req = 0
    /\ Arrive(r, "")
    /\ driver' = [driver EXCEPT !.req = r]

\* ------------------------------------------------------------------- next
ClientCalls ==
    {<<t, EmptyArgs>> : t \in ToolNames} \cup {<<"moveToken", a>> : a \in ArgMaps}

\* The completions the model gives: prose, prose followed by a tool line,
\* and tool lines in the two syntaxes with well and ill formed payloads.
Replies ==
    {PlainReply,
     <<Word("Sure"), Nl>> \o ToolReply("moveToken", <<Sp, Payload("json", GoodArgs)>>),
     <<Marker>>,
     ToolReply("helloWorld", <<>>),
     ToolReply("getCurrentTime", <<Sp, Payload("json", EmptyArgs)>>),
     ToolReply("moveToken", <<Sp, Payload("json", GoodArgs)>>),
     ToolReply("moveToken", <<Sp, Payload("json", GoodArgs), Nl, Word("Sure")>>),
     ToolReply("moveToken", <<Lp, Payload("json", [GoodArgs EXCEPT !.amount = Num(2)]), Rp>>),
     ToolReply("moveToken", <<Lp, Payload("json", GoodArgs), Rp, Sp, Word("Sure")>>),
     ToolReply("moveToken", <<Sp, Payload("bare", [GoodArgs EXCEPT !.amount = Frac(1)])>>),
     ToolReply("moveToken", <<Sp, Payload("single", GoodArgs)>>),
     ToolReply("moveToken", <<Sp, Payload("bare", [EmptyArgs EXCEPT !.amount = Num(1)])>>),
     ToolReply("moveToken", <<Sp, Payload("comma", GoodArgs)>>)}

\* The follow-up completions the model gives: a summary, or another tool line.
FollowUps ==
    {PlainReply,
     ToolReply("helloWorld", <<>>),
     ToolReply("moveToken", <<Sp, Payload("json", GoodArgs)>>)}

\* The server under concurrent requests of any clients.
Next ==
    \/ \E r \in Reqs, h \in Headers : Receive(r, h)
    \/ \E r \in Reqs : ConnectReturn(r)
    \/ \E r \in Reqs : ConnectRaise(r)
    \/ \E r \in Reqs, c \in ClientCalls : Dispatch(r, c[1], c[2])
    \/ \E r \in Reqs : ReadReturn(r)
    \/ \E r \in Reqs : ReadRaise(r)
    \/ \E r \in Reqs : ApproveReturn(r)
    \/ \E r \in Reqs : ApproveRaise(r)
    \/ \E r \in Reqs, res \in SendResults : SendReturn(r, res)
    \/ \E r \in Reqs : SendRaise(r)

Spec == Init /\ [][Next]_vars

\* The moveToken calls that differ in the token and in the amount.
TransferArgs ==
    {EmptyArgs, [GoodArgs EXCEPT !.tokenAddress = Str("abc")]}
    \cup {[GoodArgs EXCEPT !.amount = v] : v \in AmountValues \ {Absent}}

\* The server under concurrent moveToken calls of the clients of one session,
\* the session of the requests that carry no session header.
TransferNext ==
    \/ \E r \in Reqs : Receive(r, "")
    \/ \E r \in Reqs : ConnectReturn(r)
    \/ \E r \in Reqs : ConnectRaise(r)
    \/ \E r \in Reqs, a \in TransferArgs : Dispatch(r, "moveToken", a)
    \/ \E r \in Reqs : ReadReturn(r)
    \/ \E r \in Reqs : ReadRaise(r)
    \/ \E r \in Reqs : ApproveReturn(r)
    \/ \E r \in Reqs : ApproveRaise(r)
    \/ \E r \in Reqs, res \in SendResults : SendReturn(r, res)
    \/ \E r \in Reqs : SendRaise(r)

TransferSpec == Init /\ [][TransferNext]_vars

\* The chat client and the server that serves it.
DriverNext ==
    \/ \E text \in UserInputs : UserInput(text)
    \/ \E ok \in BOOLEAN : FetchReturn(ok)
    \/ FetchTimeout
    \/ \E reply \in Replies : CompletionReturn(reply)
    \/ CompletionRaise
    \/ \E r \in Reqs : DriverPost(r)
    \/ ToolResolve
    \/ ToolReject
    \/ ToolTimeout
    \/ \E how \in {"resolve", "reject"} : ToolSettlesLate(how)
    \/ \E reply \in FollowUps : FollowupReturn(reply)
    \/ FollowupRaise
    \/ \E r \in Reqs : ConnectReturn(r)
    \/ \E r \in Reqs : ConnectRaise(r)
    \/ \E r \in Reqs : DriverDispatch(r)
    \/ \E r \in Reqs : ReadReturn(r)
    \/ \E r \in Reqs : ReadRaise(r)
    \/ \E r \in Reqs : ApproveReturn(r)
    \/ \E r \in Reqs : ApproveRaise(r)
    \/ \E r \in Reqs, res \in SendResults : SendReturn(r, res)
    \/ \E r \in Reqs : SendRaise(r)

DriverSpec == Init /\ [][DriverNext]_vars

\* ================================================================ claims
\* The events of a call log.
Calls(log, op) == {i \in DOMAIN log : log[i].op = op /\ log[i].ev = "call"}
Returns(log, op) == {i \in DOMAIN log : log[i].op = op /\ log[i].ev = "ret"}
Raises(log, op) == {i \in DOMAIN log : log[i].op = op /\ log[i].ev = "raise"}
\* The amount the client asked for, as an integer.
Requested(q) == q.args.amount.n

\* C1: when the balance read for the sender is strictly less than the
\* requested amount, the invocation returns the insufficient-balance message
\* with have = the balance read and need = the requested amount, and issues
\* no approveRouter and no transferTokens call.
C1_InsufficientBalanceStops ==
    \A r \in Reqs :
        LET q == requests[r]
        IN  \A i \in Returns(q.log, "read") :
                q.log[i].bal < Requested(q) =>
                    /\ q.pc = "done"
                    /\ q.resp = InsufficientText(q.log[i].bal, Requested(q))
                    /\ Calls(q.log, "approve") = {}
                    /\ Calls(q.log, "send") = {}

C1_Witness ==
    \E r \in Reqs :
        LET q == requests[r]
        IN  /\ q.invoked /\ q.pc = "done"
            /\ \E i \in Returns(q.log, "read") : q.log[i].bal = 1 /\ Requested(q) = 2
            /\ q.resp.kind = "Insufficient"

\* C2: every transferTokens call is preceded, in the same invocation, by a
\* balance read that returned at least the requested amount.
C2_SendOnlyAfterPassedCheck ==
    \A r \in Reqs :
        LET q == requests[r]
        IN  \A i \in Calls(q.log, "send") :
                \E j \in Returns(q.log, "read") : j < i /\ q.log[j].bal >= Requested(q)

C2_Witness ==
    \E r \in Reqs :
        LET q == requests[r]
        IN  /\ Calls(q.log, "send") # {}
            /\ \E j \in Returns(q.log, "read") : q.log[j].bal = Requested(q)

\* C3: within one invocation the approval is requested before the send, and
\* the send is submitted only after the approval call has returned; no send
\* is attempted while the approval is unconfirmed.
C3_ApprovalConfirmedBeforeSend ==
    \A r \in Reqs :
        LET q == requests[r]
        IN  /\ \A i \in Calls(q.log, "send") :
                   \E j \in Calls(q.log, "approve"), k \in Returns(q.log, "approve") :
                       j < k /\ k < i
            /\ q.pc = "approving" => Calls(q.log, "send") = {}

C3_Witness ==
    \E r \in Reqs :
        LET q == requests[r]
        IN  q.pc = "sending" /\ Returns(q.log, "approve") # {} /\ Calls(q.log, "send") # {}

\* C4: if the approveRouter call of an invocation raises, that invocation
\* never calls transferTokens.
C4_NoSendAfterFailedApproval ==
    \A r \in Reqs :
        LET q == requests[r]
        IN  Raises(q.log, "approve") # {} =>
                /\ Calls(q.log, "send") = {}
                /\ q.pc = "done"

C4_Witness ==
    \E r \in Reqs :
        LET q == requests[r]
        IN  Raises(q.log, "approve") # {} /\ q.pc = "done" /\ q.resp.kind = "Failed"

\* C5: when the balance read is at least the requested amount (equal
\* included) and the approval and the send both succeed, the result is the
\* completion message with exactly the txHash and messageId the send
\* returned, and the approval and the send were issued with the request's
\* token and exactly the request's amount.
C5_CompletedCarriesSendResult ==
    \A r \in Reqs :
        LET q == requests[r]
        IN  \A i \in Returns(q.log, "send") :
                /\ q.pc = "done"
                /\ q.resp.kind = "Moved"
                /\ q.resp.tx = q.log[i].tx
                /\ q.resp.msg = q.log[i].msg
                /\ \E b \in Returns(q.log, "read") : q.log[b].bal >= Requested(q)
                /\ Cardinality(Calls(q.log, "approve")) = 1
                /\ Cardinality(Calls(q.log, "send")) = 1
                /\ \A c \in Calls(q.log, "approve") \cup Calls(q.log, "send") :
                       /\ q.log[c].token = q.args.tokenAddress.s
                       /\ q.log[c].amount = Requested(q)

C5_Witness ==
    \E r \in Reqs :
        LET q == requests[r]
        IN  /\ q.pc = "done" /\ q.resp.kind = "Moved" /\ q.resp.tx = "0xt2"
            /\ \E b \in Returns(q.log, "read") : q.log[b].bal = Requested(q)
            /\ Returns(q.log, "send") # {}


\* C6: every moveToken invocation ends with exactly one outcome, one of
\* InsufficientBalance, Completed or Failed; the outcome is Failed if and only
\* if one of the external calls (balance read, approval, send) raised, and
\* then no later step of the sequence was executed.  Stated for a server
\* whose configuration is complete.  (Violated: a non-integer amount passes
\* z.number() and BigInt raises before the balance read.)
C6_FailedIffExternalCallRaised ==
    \A r \in Reqs :
        LET q == requests[r]
            raised == {i \in DOMAIN q.log : q.log[i].ev = "raise"}
        IN  (env = RequiredKeys /\ q.invoked /\ q.pc = "done") =>
                /\ q.resp.kind \in {"Insufficient", "Moved", "Failed"}
                /\ q.resp.kind = "Failed" <=> raised # {}
                /\ \A i \in raised : i = Len(q.log)

\* C7: no automatic retry.  Within one invocation the balance read, the
\* approval and the send are each called at most once; the chat client posts
\* at most one request per tool call, makes at most one tool call per turn,
\* and after a tool call that failed or timed out it makes no further one.
C7_NoAutomaticRetry ==
    /\ \A r \in Reqs : \A op \in {"read", "approve", "send"} :
           Cardinality(Calls(requests[r].log, op)) <= 1
    /\ Cardinality({r \in Reqs : requests[r].pc # "idle"}) <= Len(driver.dispatches)
    /\ \A i \in DOMAIN driver.dispatches :
           /\ driver.dispatches[i].outcome \in {"error", "timeout"} =>
                  i = Len(driver.dispatches) /\ driver.pc = "Exited"
           /\ \A j \in DOMAIN driver.dispatches :
                  i # j => driver.dispatches[i].turn # driver.dispatches[j].turn

C7_Witness ==
    /\ driver.pc = "Exited"
    /\ Len(driver.dispatches) = 2
    /\ driver.dispatches[1].outcome = "ok"
    /\ driver.dispatches[2].outcome = "error"
    /\ driver.dispatches[2].tool = "moveToken"
    /\ driver.req # 0
    /\ Raises(requests[driver.req].log, "send") # {}

\* C8: under any interleaving of two concurrent first-touch requests for the
\* same unseen session identifier, exactly one handler set is created for
\* the identifier and every request under it is delegated to that same
\* handler set.  (Violated by the per-session server, which stores the entry
\* only after `await connect`.)
C8_OneHandlerSetPerSession ==
    \A sid \in SessionIds :
        /\ Cardinality({t \in DOMAIN handlers : handlers[t].sid = sid}) <= 1
        /\ \A r1, r2 \in Reqs :
               (/\ requests[r1].sid = sid /\ requests[r1].tr # 0
                /\ requests[r2].sid = sid /\ requests[r2].tr # 0)
               => requests[r1].tr = requests[r2].tr

\* C9: the handler sets that serve two distinct session identifiers are
\* distinct: no server instance is connected to the transports of more than
\* one session.  (Violated by the shared-server variant.)
C9_NoServerSharedAcrossSessions ==
    \A t1, t2 \in DOMAIN handlers :
        (/\ handlers[t1].connected /\ handlers[t2].connected
         /\ handlers[t1].sid # handlers[t2].sid)
        => handlers[t1].server # handlers[t2].server

\* A well-formed address token: a string that is a 0x-prefixed hex address.
WellFormedAddress(v) == v.k = "str" /\ v.s \in {"0xabc", "0xdef"}
Numeric(v) == v.k \in {"num", "frac"}
WellFormedArgs(a) ==
    /\ WellFormedAddress(a.tokenAddress)
    /\ Numeric(a.amount)
    /\ WellFormedAddress(a.destinationAccount)

\* C10: the transfer tool's arguments are validated before the handler runs:
\* if tokenAddress, amount or destinationAccount is missing or ill-typed
\* (address not a well-formed address token, amount not numeric), the call
\* yields an error result and no balance read, approval or send is issued.
\* Stated for a server whose configuration is complete.  (Violated: z.string()
\* accepts a string that is no address.)
C10_IllFormedArgsRejected ==
    \A r \in Reqs :
        LET q == requests[r]
        IN  (env = RequiredKeys /\ q.tool = "moveToken" /\ ~WellFormedArgs(q.args)) =>
                /\ ~q.invoked
                /\ q.log = <<>>
                /\ q.pc = "done" => q.resp.kind \in {"Invalid", "Failed", "Dropped"}

\* The tool results of the transcript.
ToolResultsOf(history) == {i \in DOMAIN history : history[i].role = "Tool result"}

DispatchedThisTurn ==
    \E i \in DOMAIN driver.dispatches : driver.dispatches[i].turn = driver.turn

\* The first line of the text is the marker followed by a tool name and an
\* argument payload.
MarkerNameAndPayload(text) ==
    LET line == FirstLine(text)
    IN  /\ StartsWithMarker(line)
        /\ \E i, j \in DOMAIN line :
               /\ i < j
               /\ line[i].t = "word"
               /\ line[j].t = "payload"
               /\ \A k \in 2..(i - 1) : line[k] = Sp

\* C12: a reply is dispatched as a tool invocation if and only if its first
\* line is the marker TOOL: followed by a tool name and an argument payload;
\* a reply that does not start with the marker is never dispatched; the tool
\* name and the arguments are those of the first line alone.  (Violated: any
\* reply that starts with TOOL: is dispatched, with an empty name or without
\* a payload too.)
C12_DispatchIffMarkerNameAndPayload ==
    driver.llmReply # <<>> =>
        /\ DispatchedThisTurn <=> MarkerNameAndPayload(driver.llmReply)
        /\ ~StartsWithMarker(driver.llmReply) => ~DispatchedThisTurn
        /\ DispatchedThisTurn =>
               LET line == ParseToolLine(FirstLine(driver.llmReply))
               IN  /\ driver.dispatches[Len(driver.dispatches)].tool = line.toolName
                   /\ driver.pc = "Dispatching" => driver.args = ParseArgs(line.argsJson)

\* C13: at most one tool dispatch is made in a user turn, and one request is
\* posted for it; when the follow-up completion starts with the marker, no
\* second dispatch is made (the dispatch of the turn is the one of the first
\* completion) and the canned assistant message is what the transcript gets.
C13_OneDispatchPerTurn ==
    /\ \A t \in 1..driver.turn :
           Cardinality({i \in DOMAIN driver.dispatches : driver.dispatches[i].turn = t}) <= 1
    /\ Cardinality({r \in Reqs : requests[r].pc # "idle"}) <= Len(driver.dispatches)
    /\ StartsWithMarker(driver.followUp) =>
           /\ driver.pc \in {"AwaitingInput", "Exited"}
           /\ driver.history[Len(driver.history)] = CannedCompletion
           /\ driver.history[Len(driver.history) - 1].role = "Tool result"
           /\ driver.dispatches[Len(driver.dispatches)] =
                  Dispatched(driver.turn, ParseToolLine(driver.llmReply).toolName, "ok")
           /\ \A r \in Reqs : requests[r].pc \in {"idle", "closed"}

C13_Witness ==
    /\ driver.pc = "AwaitingInput"
    /\ driver.turn = 2
    /\ StartsWithMarker(driver.followUp)
    /\ ParseToolLine(driver.followUp).toolName = "moveToken"
    /\ ParseToolLine(driver.llmReply).toolName = "helloWorld"
    /\ driver.history[Len(driver.history)] = CannedCompletion
    /\ Len(driver.dispatches) = 2

\* The argument text of the reply of the current turn.
ArgsJsonOf(d) == ParseToolLine(d.llmReply).argsJson
\* The strict parse succeeds on a payload of strict JSON only.
StrictParses(a) == Len(a) = 1 /\ a[1].t = "payload" /\ a[1].syn = "json"
\* The pairs the scrape finds in a payload with bare keys: key: "text" with a
\* text that is not empty, and key: digits.  The scrape is tried only on a
\* payload that holds a double quote.
ScrapablePairs(a) ==
    IF /\ Len(a) = 1 /\ a[1].t = "payload" /\ a[1].syn = "bare"
       /\ \E f \in FieldNames : a[1].map[f].k = "str"
    THEN {f \in FieldNames :
             \/ a[1].map[f].k = "str" /\ a[1].map[f].s # ""
             \/ a[1].map[f].k \in {"num", "frac"} /\ a[1].map[f].n >= 0}
    ELSE {}
\* The request the chat client posted has been read by a server.
PostedAndRead ==
    /\ driver.pc = "Dispatching"
    /\ driver.req # 0
    /\ \/ requests[driver.req].pc \in {"reading", "approving", "sending"}
       \/ /\ requests[driver.req].pc = "done"
          /\ requests[driver.req].resp.kind \in
                 {"Hello", "Time", "UnknownTool", "Invalid", "Insufficient", "Moved"}

\* C14, as stated: the parsed argument mapping is empty exactly when the
\* payload is absent or both the strict parse and the scrape fail, and then
\* the tool is dispatched with the empty mapping.  (Violated by the payload
\* {}: the strict parse succeeds and the mapping is empty.)
C14_EmptyExactlyWhenParsingFails ==
    driver.pc = "Dispatching" =>
        LET a == ArgsJsonOf(driver)
        IN  driver.args = EmptyArgs <=>
                \/ a = <<>>
                \/ ~StrictParses(a) /\ ScrapablePairs(a) = {}

\* C14, amended: the parsing is tiered.  The mapping is the value of the
\* strict parse when it succeeds (the empty mapping for the payload {}),
\* else the pairs the scrape finds when it is tried (on a payload with a
\* double quote) and finds any (a number cut at its decimal point), else
\* empty; so it is empty exactly when the payload is absent, is the empty
\* object, or fails both the strict parse and the scrape.  A reply that starts with the marker is dispatched whatever the
\* parser yields, and the request posted carries the parsed mapping.
C14_TieredParsing ==
    /\ StartsWithMarker(driver.llmReply) => DispatchedThisTurn
    /\ driver.pc = "Dispatching" =>
           LET a == ArgsJsonOf(driver)
           IN  /\ driver.args = EmptyArgs <=>
                      \/ a = <<>>
                      \/ StrictParses(a) /\ a[1].map = EmptyArgs
                      \/ ~StrictParses(a) /\ ScrapablePairs(a) = {}
               /\ (a # <<>> /\ StrictParses(a)) => driver.args = a[1].map
               /\ (a # <<>> /\ ~StrictParses(a)) =>
                      \A f \in FieldNames :
                          /\ f \in ScrapablePairs(a) =>
                                 /\ driver.args[f].k = (IF a[1].map[f].k = "str" THEN "str" ELSE "num")
                                 /\ driver.args[f].s = a[1].map[f].s
                                 /\ driver.args[f].n = a[1].map[f].n
                          /\ f \notin ScrapablePairs(a) => driver.args[f] = Absent
    /\ PostedAndRead => requests[driver.req].args = driver.args

C14_Witness ==
    /\ PostedAndRead
    /\ LET a == ArgsJsonOf(driver)
       IN  /\ Len(a) = 1
           /\ a[1].syn = "comma"
           /\ a[1].map = GoodArgs
    /\ driver.args = EmptyArgs
    /\ requests[driver.req].tool = "moveToken"
    /\ requests[driver.req].args = EmptyArgs

\* C15: callToolWithTimeout settles exactly once.  While its promise is
\* pending main waits; when the timer fired first the promise is rejected
\* with the timeout error that names the tool and the 300 seconds, and stays
\* so whatever the tool call produces later; when the tool call settled
\* first the promise holds the tool call's own result or error, the timer is
\* cleared and never fires, and no timeout is reported.
C15_SettlesExactlyOnce ==
    LET c == driver.call
        last == driver.dispatches[Len(driver.dispatches)]
    IN  /\ c.promise = "pending" <=> driver.pc = "Dispatching"
        /\ c.promise = "pending" => c.timer = "armed" /\ ~c.toolSettled
        /\ c.timer = "fired" =>
               /\ c.promise = "rejected"
               /\ c.value = [kind |-> "timeout", tool |-> driver.toolName,
                             seconds |-> 300, text |-> "timed out"]
               /\ last.outcome = "timeout"
               /\ driver.pc = "Exited"
        /\ (c.toolSettled /\ c.timer # "fired") =>
               /\ c.timer = "cleared"
               /\ c.promise = "fulfilled" => c.value.kind = "result" /\ last.outcome = "ok"
               /\ c.promise = "rejected" => c.value.kind = "error" /\ last.outcome = "error"
               /\ c.promise \in {"fulfilled", "rejected"}
        /\ c.promise \in {"fulfilled", "rejected"} => c.timer \in {"fired", "cleared"}

C15_Witness ==
    /\ driver.call.timer = "fired"
    /\ driver.call.toolSettled
    /\ driver.call.promise = "rejected"
    /\ driver.call.value.kind = "timeout"
    /\ driver.call.value.tool = "moveToken"
    /\ requests[driver.req].resp.kind = "Moved"

\* C16: the loop ends when the input is "exit" in any case: nothing is
\* appended to the transcript and no completion is requested for that input;
\* any other input is appended and a completion is requested.  The loop also
\* ends when callLLM raises, for the first completion or the follow-up, with
\* nothing appended; and once the loop has ended nothing more is requested,
\* dispatched or appended.
C16_ExitEndsLoop ==
    [][/\ (driver.pc = "AwaitingInput" /\ driver' # driver) =>
              IF driver'.userInput \in {"exit", "EXIT"}
              THEN /\ driver'.pc = "Exited"
                   /\ driver'.history = driver.history
                   /\ driver'.llm = driver.llm
                   /\ driver'.turn = driver.turn
              ELSE /\ driver'.pc = "RequestingCompletion"
                   /\ driver'.llm.stage = "fetch"
       /\ (driver'.llm.stage = "raised" /\ driver.llm.stage # "raised") =>
              /\ driver.pc \in {"RequestingCompletion", "RequestingFollowup"}
              /\ driver'.pc = "Exited"
              /\ driver'.history = driver.history
       /\ driver.pc = "Exited" =>
              /\ driver'.pc = "Exited"
              /\ driver'.history = driver.history
              /\ driver'.llm = driver.llm
              /\ driver'.turn = driver.turn
              /\ driver'.dispatches = driver.dispatches
      ]_vars

C16_Witness ==
    /\ driver.pc = "Exited"
    /\ driver.userInput = "EXIT"
    /\ driver.turn = 1
    /\ driver.llm.stage = "returned"
    /\ Len(driver.history) = 3

\* No token of the text is the marker.
NoMarker(text) == \A i \in DOMAIN text : text[i] # Marker

\* C17: when the reply of a turn carries no tool marker, no tool dispatch is
\* made in that turn, the transcript has grown by the user utterance followed
\* by the assistant reply and by nothing else, and main is back at the prompt.
\* The two steps of such a turn append exactly one utterance each: the user's
\* input, then the reply as it was received.
C17_PlainReplyTurn ==
    /\ [](/\ (driver.llmReply # <<>> /\ NoMarker(driver.llmReply)) =>
                 /\ ~DispatchedThisTurn
                 /\ driver.pc \in {"AwaitingInput", "Exited"}
                 /\ Len(driver.history) >= 3
                 /\ driver.history[Len(driver.history) - 1].role = "User"
                 /\ driver.history[Len(driver.history)] =
                        [role |-> "Assistant", tool |-> "", text |-> driver.llmReply])
    /\ [][/\ (driver.pc = "AwaitingInput" /\ driver'.pc = "RequestingCompletion") =>
                 driver'.history = Append(driver.history,
                     [role |-> "User", tool |-> "", text |-> <<Word(driver'.userInput)>>])
          /\ (driver.pc = "RequestingCompletion" /\ driver'.llm.stage = "returned"
                 /\ NoMarker(driver'.llmReply)) =>
                 /\ driver'.pc = "AwaitingInput"
                 /\ driver'.history = Append(driver.history,
                        [role |-> "Assistant", tool |-> "", text |-> driver'.llmReply])
                 /\ driver'.dispatches = driver.dispatches
                 /\ requests' = requests
         ]_vars

C17_Witness ==
    /\ driver.pc = "AwaitingInput"
    /\ driver.turn = 2
    /\ driver.llmReply = PlainReply
    /\ driver.dispatches = <<>>
    /\ Len(driver.history) = 5

\* C20, as a property of every state: while main waits for a completion, at
\* whatever stage of callLLM, the abort timer is armed, so that the wait ends
\* no later than when the timer fires.  (Violated: the timer is cleared as
\* soon as fetch returns, before the body is read.)
C20_CompletionBounded ==
    driver.pc \in {"RequestingCompletion", "RequestingFollowup"} =>
        driver.llm.timer = "armed"

\* C18: startup fails, before any request is served, whenever one of the
\* RPC endpoint, the signing key, the router address and the destination
\* chain selector is not set, and succeeds when all four are: a request is
\* received only by a server that has all four.  (Violated: start() never
\* looks at the environment.)
C18_StartupFailsFast ==
    /\ RequiredKeys \subseteq env => Start(env) = "listening"
    /\ (\E r \in Reqs : requests[r].pc # "idle") => RequiredKeys \subseteq env

\* C19: the set of known session identifiers only grows.  An entry of the
\* session map is never removed or replaced; a request whose identifier has
\* an entry is delegated to that entry's transport and creates no handler
\* set; a request without the session header is routed to the session named
\* "default".  (Violated by the per-session server: of two first requests
\* suspended at `await connect`, the second to return replaces the entry the
\* first one stored.)
C19_SessionEntriesKept ==
    [][/\ \A sid \in SessionIds :
              sessions[sid] # 0 => sessions'[sid] = sessions[sid]
       /\ \A r \in Reqs :
              (requests[r].pc = "idle" /\ requests'[r].pc # "idle") =>
                  /\ requests'[r].header = "" => requests'[r].sid = "default"
                  /\ sessions[requests'[r].sid] # 0 =>
                         /\ handlers' = handlers
                         /\ requests'[r].tr = sessions[requests'[r].sid]
      ]_vars


\* ---------------------------------------------------------------------------
\* The transcript (history, lines 139-166 and 266-292).
OkDispatches(d) == {i \in DOMAIN d.dispatches : d.dispatches[i].outcome = "ok"}
Roles(history) == [i \in DOMAIN history |-> history[i].role]
LastN(history, n) == SubSeq(history, Len(history) - n + 1, Len(history))
\* The tool call of the current turn returned a result.
DispatchedOk ==
    /\ driver.dispatches # <<>>
    /\ driver.dispatches[Len(driver.dispatches)].turn = driver.turn
    /\ driver.dispatches[Len(driver.dispatches)].outcome = "ok"
\* The turn is over: main is back at promptUser or has left the loop.
TurnOver == driver.pc \in {"AwaitingInput", "Exited"}
\* The last three utterances are those of a tool turn.
ThreeUtterances ==
    /\ Roles(LastN(driver.history, 3)) = <<"User", "Tool result", "Assistant">>
    /\ LastN(driver.history, 3)[2].tool = driver.toolName
    /\ LastN(driver.history, 3)[3] \in {AssistantSays(driver.followUp), CannedCompletion}
\* The first element is the SYSTEM utterance and no raw tool-invocation reply
\* is stored.
TranscriptShape ==
    /\ driver.history[1] = SystemPrompt
    /\ \A i \in DOMAIN driver.history :
          i > 1 => /\ driver.history[i] # SystemPrompt
                   /\ ~StartsWithMarker(driver.history[i].text)

\* C21 as stated: the first element of the transcript is the SYSTEM utterance,
\* no raw tool-invocation reply is stored, and every turn in which a tool was
\* dispatched successfully has appended exactly three utterances (User, Tool
\* result for the dispatched tool, Assistant) when it is over.
C21_ThreeUtterancesPerToolTurn ==
    /\ TranscriptShape
    /\ (TurnOver /\ DispatchedOk) => ThreeUtterances

\* C21, amended: the transcript is append-only (every step leaves it alone or
\* appends one utterance to it), its first element is the SYSTEM utterance, no
\* raw tool-invocation reply is stored, and a turn whose tool dispatch
\* succeeded and whose follow-up completion returned appends exactly three
\* utterances: User, Tool result for the dispatched tool name, one Assistant.
\* If the follow-up completion fails, the turn has appended the first two and
\* the loop has ended.
C21_TranscriptAppendOnly ==
    /\ [](/\ TranscriptShape
          /\ (driver.pc = "AwaitingInput" /\ DispatchedOk) =>
                /\ Len(driver.history) = 1 + 2 * driver.turn + Cardinality(OkDispatches(driver))
                /\ LastN(driver.history, 3)[1] = UserSays(driver.userInput)
                /\ ThreeUtterances
          /\ (driver.pc = "Exited" /\ DispatchedOk /\ driver.llm.stage = "raised") =>
                /\ Len(driver.history) = 2 * driver.turn + Cardinality(OkDispatches(driver))
                /\ Roles(LastN(driver.history, 2)) = <<"User", "Tool result">>)
    /\ [][\/ driver'.history = driver.history
          \/ /\ Len(driver'.history) = Len(driver.history) + 1
             /\ SubSeq(driver'.history, 1, Len(driver.history)) = driver.history]_vars
C21_Witness ==
    /\ driver.pc = "AwaitingInput"
    /\ DispatchedOk
    /\ driver.turn = 2
    /\ Cardinality(OkDispatches(driver)) = 2
    /\ Len(driver.history) = 7

\* C22: no approval and no send is issued with an amount that is not a
\* non-negative integer: every approveRouter and transferTokens call carries
\* an amount >= 0, and the amount the client gave is a non-negative integer.
C22_NonNegativeIntegerAmounts ==
    \A r \in Reqs :
        LET q == requests[r]
        IN  \A i \in Calls(q.log, "approve") \cup Calls(q.log, "send") :
                /\ q.args.amount.k = "num"
                /\ q.args.amount.n >= 0
                /\ q.log[i].amount >= 0

\* C23: a moveToken dispatch that the chat client makes with the empty
\* argument mapping is rejected before the handler runs: the handler is not
\* invoked, and no balance read, approval or send is issued for it; the call
\* ends with the validation error (or is never served).
C23_EmptyMoveTokenRejected ==
    (driver.req # 0 /\ driver.toolName = "moveToken" /\ driver.args = EmptyArgs) =>
        LET q == requests[driver.req]
        IN  /\ ~q.invoked
            /\ q.log = <<>>
            /\ q.pc \notin {"reading", "approving", "sending"}
            /\ (q.pc = "done" /\ q.tool = "moveToken") =>
                   /\ q.args = EmptyArgs
                   /\ q.resp.kind \in {"Invalid", "Dropped"}
C23_Witness ==
    /\ driver.req # 0
    /\ driver.toolName = "moveToken"
    /\ driver.args = EmptyArgs
    /\ LET a == ArgsJsonOf(driver)
       IN  Len(a) = 1 /\ a[1].syn = "single" /\ a[1].map = GoodArgs
    /\ env = RequiredKeys
    /\ requests[driver.req].pc = "done"
    /\ requests[driver.req].resp.kind = "Invalid"
    /\ chainBalance >= 1

\* C24: a timeout error states the duration of the timer that fired: the
\* seconds in the timeout error of a completion request equal the delay its
\* timer was armed with, and so do the seconds in the timeout error of a tool
\* call.
C24_TimeoutStatesElapsed ==
    /\ driver.llm.timer = "fired" => driver.llm.seconds * 1000 = driver.llm.ms
    /\ driver.call.timer = "fired" =>
           /\ driver.call.value.kind = "timeout"
           /\ driver.call.value.seconds * 1000 = ToolTimeoutMs

\* The external calls main is waiting on: the user's input, a completion
\* request, a tool dispatch.
AwaitsInput(d) == d.pc = "AwaitingInput"
AwaitsCompletion(d) == d.llm.stage \in {"fetch", "body"}
AwaitsTool(d) == d.call.promise = "pending"
Awaited(d) ==
    (IF AwaitsInput(d) THEN {"input"} ELSE {})
    \cup (IF AwaitsCompletion(d) THEN {"completion"} ELSE {})
    \cup (IF AwaitsTool(d) THEN {"tool"} ELSE {})

\* C25: one driver is strictly sequential: at every moment it waits on at most
\* one external call (exactly one until it has left the loop), the call its
\* position in the loop says, and it starts a tool dispatch only when it is
\* awaiting no tool dispatch.
C25_StrictlySequential ==
    /\ [](/\ Cardinality(Awaited(driver)) <= 1
          /\ driver.pc # "Exited" => Cardinality(Awaited(driver)) = 1
          /\ AwaitsCompletion(driver) =>
                 driver.pc \in {"RequestingCompletion", "RequestingFollowup"}
          /\ AwaitsTool(driver) => driver.pc = "Dispatching"
          /\ Cardinality({r \in Reqs : requests[r].pc \notin {"idle", "closed", "done"}}) <= 1)
    /\ [][Len(driver'.dispatches) > Len(driver.dispatches) =>
              /\ ~AwaitsTool(driver)
              /\ AwaitsTool(driver')
              /\ Len(driver'.dispatches) = Len(driver.dispatches) + 1]_vars
C25_Witness ==
    /\ driver.turn = 2
    /\ Len(driver.dispatches) = 2
    /\ driver.dispatches[1].outcome = "ok"
    /\ AwaitsTool(driver)
    /\ driver.req # 0
    /\ requests[driver.req].pc = "approving"

\* The tool call of the current turn failed: it was rejected or it timed out.
DispatchFailed ==
    /\ driver.dispatches # <<>>
    /\ driver.dispatches[Len(driver.dispatches)].turn = driver.turn
    /\ driver.dispatches[Len(driver.dispatches)].outcome \in {"error", "timeout"}

\* C26: a tool dispatch that fails with an error or a timeout aborts only the
\* current turn: no tool-result utterance is appended and no follow-up
\* completion is requested for it, and the loop has ended only when the user
\* typed exit or a completion request raised.
C26_ToolFailureAbortsTurnOnly ==
    /\ DispatchFailed =>
           /\ driver.history[Len(driver.history)] = UserSays(driver.userInput)
           /\ driver.pc # "RequestingFollowup"
           /\ driver.followUp = <<>>
    /\ driver.pc = "Exited" =>
           \/ ToLowerCase(driver.userInput) = "exit"
           \/ driver.llm.stage = "raised"

\* C27: the Assistant utterance stating that the token transfer has been
\* completed successfully is appended only in a turn in which moveToken was
\* dispatched and returned a completion result: the utterance before it is the
\* Tool result of moveToken with the Moved text.
C27_CompletedOnlyAfterTransfer ==
    \A i \in DOMAIN driver.history :
        driver.history[i] = CannedCompletion =>
            /\ i > 1
            /\ driver.history[i - 1].role = "Tool result"
            /\ driver.history[i - 1].tool = "moveToken"
            /\ driver.history[i - 1].text = <<Word("Moved")>>

\* The invocations whose transferTokens call has been issued and has not yet
\* returned, and the sum of the amounts of a set of invocations.
SendIssued == {r \in Reqs : requests[r].pc = "sending" /\ requests[r].amount >= 0}
RECURSIVE SumAmounts(_)
SumAmounts(S) ==
    IF S = {} THEN 0
    ELSE LET r == CHOOSE x \in S : TRUE
         IN  requests[r].amount + SumAmounts(S \ {r})

\* C28: under any interleaving of concurrent moveToken invocations of one
\* sender for one token, a send is issued only while the sender's balance,
\* reduced by the sends the other invocations have issued, is at least the
\* requested amount: the sends that are issued and not yet executed never add
\* up to more than the balance that is left.
C28_SendsCoveredByBalance ==
    \A r \in SendIssued :
        requests[r].amount <= chainBalance - SumAmounts(SendIssued \ {r})

\* C29: a request is delegated to a session's transport only after that
\* transport has been connected to its server: every entry of the session map
\* names a connected transport (so a failed connect leaves no entry), and
\* every request that was delegated was delegated to a connected transport.
C29_DelegatedOnlyWhenConnected ==
    /\ \A sid \in SessionIds :
           sessions[sid] # 0 => handlers[sessions[sid]].connected
    /\ \A r \in Reqs :
           requests[r].tr # 0 => handlers[requests[r].tr].connected

====
